---- MODULE Spec2Model ----
(***************************************************************************)
(* Model of src/scrapper.py: the fetch operations (AsyncWebScraper,        *)
(* RSSFeedAggregator), the retry loop, the orchestrator                    *)
(* CybersecurityAggregator.scrape_all_async and the run control of         *)
(* ModernNewsAggregatorUI.                                                 *)
(*                                                                         *)
(* Three specifications share the module:                                  *)
(*   SpecFetch  one call of one fetch operation, step by step;             *)
(*   Spec       one call of scrape_all_async (six tasks, gather, the       *)
(*              result loop with its callbacks);                           *)
(*   SpecUI     start_scraping / stop_scraping and the background runs.    *)
(***************************************************************************)
EXTENDS Integers, Sequences, FiniteSets, TLC

\* ------------------------------------------------------------------ bounds
MaxRetriesBound == 3
MaxEntries == 2
MaxLimit == 2
MaxRuns == 2
MaxExports == 1
MaxSources == 3

\* ------------------------------------------------------- program constants
\* retry_config, src/scrapper.py:48
max_retries_default == 3
base_delay_default == 1
max_delay_default == 10
backoff_factor_default == 2
\* the only status scrape_with_retry accepts, src/scrapper.py:68
HTTP_OK == 200

\* --------------------------------------------------------------- helpers
Min(a, b) == IF a <= b THEN a ELSE b

RECURSIVE Pow(_, _)
Pow(b, e) == IF e = 0 THEN 1 ELSE b * Pow(b, e - 1)

\* Optional[str]: None is the empty sequence, a present text is <<text>>.
None == <<>>
Some(s) == <<s>>

\* ---------------------------------------------------------- ScrapingResult
ScrapingResult(source, articles, status, error) ==
    [source |-> source, articles |-> articles, status |-> status, error |-> error]

\* The value of a variable that holds no result yet.
NoResult == ScrapingResult("", <<>>, "none", None)

\* What a call hands to its caller: a returned value or a raised exception.
Returned(r) == [raised |-> FALSE, value |-> r, exc |-> ""]
Raised(e) == [raised |-> TRUE, value |-> NoResult, exc |-> e]

\* ------------------------------------------------------------ retry policy
DefaultRetryConfig ==
    [max_retries |-> max_retries_default, base_delay |-> base_delay_default,
     max_delay |-> max_delay_default, backoff_factor |-> backoff_factor_default]

\* The configurations the retry loop is exercised with (the program's own
\* among them).
RetryConfigs ==
    [max_retries : 1..MaxRetriesBound, base_delay : {1, 2},
     max_delay : {3, max_delay_default}, backoff_factor : {2, 3}]

\* src/scrapper.py:59-62, a variant with the exponent one too small
DelayOffByOne(cfg, a) ==
    Min(cfg.base_delay * Pow(cfg.backoff_factor, IF a = 0 THEN 0 ELSE a - 1), cfg.max_delay)

\* src/scrapper.py:59-62, a variant without the ceiling
DelayUncapped(cfg, a) == cfg.base_delay * Pow(cfg.backoff_factor, a)

\* src/scrapper.py:59-62
Delay(cfg, a) ==
    Min(cfg.base_delay * Pow(cfg.backoff_factor, a), cfg.max_delay)

\* ------------------------------------------------------------- documents
\* One <article> element of the scraped page, by what the parser finds in it:
\*   title  "entry-title" (h2.entry-title), "heading" (another h2/h3), "none"
\*   link   "href" (an <a> with a non-empty href in the title), "empty"
\*          (an <a> whose href is empty or absent), "none" (no <a>)
\*   broken TRUE when handling the element raises
Elements ==
    { [title |-> "entry-title", link |-> "href", broken |-> FALSE],
      [title |-> "heading", link |-> "href", broken |-> FALSE],
      [title |-> "none", link |-> "none", broken |-> FALSE],
      [title |-> "entry-title", link |-> "none", broken |-> FALSE],
      [title |-> "heading", link |-> "empty", broken |-> FALSE],
      [title |-> "entry-title", link |-> "href", broken |-> TRUE] }

Docs == UNION { [1..n -> Elements] : n \in 0..MaxEntries }

\* The body of a response: its text is empty or not; a non-empty text parses
\* to a sequence of <article> elements.
Bodies == { [empty |-> TRUE, doc |-> <<>>] } \cup { [empty |-> FALSE, doc |-> d] : d \in Docs }

\* html as scrape_krebs_security holds it: None, or a body.
NoHtml == [present |-> FALSE, empty |-> TRUE, doc |-> <<>>]
Html(b) == [present |-> TRUE, empty |-> b.empty, doc |-> b.doc]

\* Python's slice seq[:n]
Take(seq, n) == SubSeq(seq, 1, Min(n, Len(seq)))

\* src/scrapper.py:142-173, a variant that keeps an element without a link
KrebsArticleKeepsLinkless(doc, i) ==
    LET e == doc[i] IN
    IF e.broken THEN <<>>
    ELSE IF e.title = "none" THEN <<>>
    ELSE << [title |-> <<e.title, i>>,
             url |-> IF e.link = "href" THEN <<"href", i>> ELSE <<"N/A", i>>,
             source |-> "Krebs on Security"] >>

\* src/scrapper.py:142-173, one element: the article appended, or nothing
KrebsArticle(doc, i) ==
    LET e == doc[i] IN
    IF e.broken THEN <<>>
    ELSE IF e.title = "none" THEN <<>>
    ELSE IF e.link # "href" THEN <<>>
    ELSE << [title |-> <<e.title, i>>, url |-> <<"href", i>>,
             source |-> "Krebs on Security"] >>

\* src/scrapper.py:140-173
RECURSIVE KrebsLoop(_, _, _)
KrebsLoop(doc, n, i) ==
    IF i > n THEN <<>> ELSE KrebsArticle(doc, i) \o KrebsLoop(doc, n, i + 1)

ParseArticles(doc, lim) == KrebsLoop(doc, Len(Take(doc, lim)), 1)

\* ------------------------------------------------------------------ feeds
\* One entry of a parsed feed, by the fields it carries; broken is TRUE when
\* building the article from it raises.
FeedEntries ==
    { [title |-> TRUE, link |-> TRUE, author |-> FALSE, broken |-> FALSE],
      [title |-> TRUE, link |-> TRUE, author |-> TRUE, broken |-> FALSE],
      [title |-> FALSE, link |-> FALSE, author |-> FALSE, broken |-> FALSE],
      [title |-> TRUE, link |-> TRUE, author |-> FALSE, broken |-> TRUE] }

\* What feedparser.parse gives: it raises, or it returns a feed.
Feeds ==
    { [raises |-> TRUE, entries |-> <<>>] } \cup
    { [raises |-> FALSE, entries |-> es] :
        es \in UNION { [1..n -> FeedEntries] : n \in 0..MaxEntries } }

\* src/scrapper.py:186-191
rss_feeds ==
    {"gb_hackers", "the_hacker_news", "security_week", "dark_reading",
     "bleeping_computer", "krebs_security"}

\* source.replace('_', ' ').title(), src/scrapper.py:213
TitleCase(source) ==
    CASE source = "gb_hackers" -> "Gb Hackers"
      [] source = "the_hacker_news" -> "The Hacker News"
      [] source = "security_week" -> "Security Week"
      [] source = "dark_reading" -> "Dark Reading"
      [] source = "bleeping_computer" -> "Bleeping Computer"
      [] source = "krebs_security" -> "Krebs Security"
      [] OTHER -> source

\* src/scrapper.py:85-92, 112-119, 206-219: the article of entry i (title and
\* url default to 'N/A'; author only where asked for and present)
FeedArticle(es, i, label, with_author) ==
    LET e == es[i]
        base == [title |-> IF e.title THEN <<"title", i>> ELSE <<"N/A">>,
                 url |-> IF e.link THEN <<"link", i>> ELSE <<"N/A">>,
                 source |-> label]
    IN IF e.broken THEN <<>>
       ELSE IF with_author /\ e.author
            THEN << [title |-> base.title, url |-> base.url, source |-> label,
                     author |-> <<"author", i>>] >>
            ELSE << base >>

\* src/scrapper.py:83-95, 110-122, 203-222
RECURSIVE FeedLoop(_, _, _, _, _)
FeedLoop(es, n, i, label, with_author) ==
    IF i > n THEN <<>>
    ELSE FeedArticle(es, i, label, with_author) \o FeedLoop(es, n, i + 1, label, with_author)

FeedArticles(es, lim, label, with_author) ==
    FeedLoop(es, Len(Take(es, lim)), 1, label, with_author)

\* The except clause of a fetch operation, a variant that lets the exception
\* escape.
HandlerEscapes(source, e) == Raised(e)

\* The except clause of a fetch operation, a variant that drops the cause.
HandlerNoCause(source, e) == Returned(ScrapingResult(source, <<>>, "error", None))

\* src/scrapper.py:98-100, 125-127, 177-179, 225-227: the except clause of a
\* fetch operation
Handler(source, e) == Returned(ScrapingResult(source, <<>>, "error", Some(e)))

\* src/scrapper.py:75-100
scrape_dark_reading(lim, feed) ==
    IF feed.raises THEN Handler("dark_reading", "feed error")
    ELSE Returned(ScrapingResult("dark_reading",
             FeedArticles(feed.entries, lim, "Dark Reading", FALSE), "success", None))

\* src/scrapper.py:102-127
scrape_bleeping_computer(lim, feed) ==
    IF feed.raises THEN Handler("bleeping_computer", "feed error")
    ELSE Returned(ScrapingResult("bleeping_computer",
             FeedArticles(feed.entries, lim, "Bleeping Computer", FALSE), "success", None))

\* src/scrapper.py:194-227
fetch_rss_feed(source, lim, feed) ==
    IF source \notin rss_feeds
    THEN Returned(ScrapingResult(source, <<>>, "error", Some("No RSS feed configured")))
    ELSE IF feed.raises THEN Handler(source, "feed error")
    ELSE Returned(ScrapingResult(source,
             FeedArticles(feed.entries, lim, TitleCase(source), TRUE), "success", None))

\* ------------------------------------------------------------------ state
VARIABLES
    \* one call of a fetch operation (SpecFetch)
    op,             \* the operation called
    limit,          \* its limit argument
    rss_source,     \* fetch_rss_feed's source argument
    retry_config,   \* AsyncWebScraper.retry_config
    pc,             \* where the call is
    session,        \* the aiohttp session: "none", "open", "closed"
    attempt,        \* scrape_with_retry's loop variable
    html,           \* what scrape_with_retry returned
    slept,          \* the delays slept so far, in order
    requests_made,  \* the number of session.get calls so far
    last_response,  \* what the last session.get gave
    accepted_at,    \* the attempt whose response was returned, or -1
    failed_step,    \* the step that raised, or "none"
    outcome,        \* what the call handed to its caller
    \* one call of scrape_all_async (Spec)
    has_callback,   \* whether a callback was passed
    gpc,            \* where the call is: "gather", "loop", "returned", "idle"
    started,        \* the tasks dispatched so far
    tasks,          \* per task: whether it is done, and what it handed over
    completion_order, \* the tasks in the order they completed
    results_list,   \* what gather returned, in the order of all_tasks
    idx,            \* the position of the result loop in results_list
    results,        \* the dict being built: (key, value) pairs in insertion order
    callbacks,      \* the callback invocations so far, in order
    \* the window and its background runs (SpecUI)
    is_running,     \* ModernNewsAggregatorUI.is_running
    start_btn,      \* the state of the start button: "normal" or "disabled"
    stop_btn,       \* the state of the stop button
    export_btn,     \* the state of the export button
    self_results,   \* ModernNewsAggregatorUI.results, a dict in insertion order
    all_articles,   \* ModernNewsAggregatorUI.all_articles
    runs,           \* per background thread: where run_scraping is, and its locals
    stop_count,     \* the number of stop_scraping calls so far
    exports,        \* what each export_results call so far did, in order
    \* one pass of a loop that collects the articles of a result map (SpecCollect)
    c_op,           \* the function the loop belongs to
    c_results,      \* the result map it iterates over
    c_i,            \* the position of the loop in the map
    c_all,          \* all_articles as built so far
    c_total,        \* the count reported for the map
    c_pc            \* where the pass is: "loop", "done", "idle"

fetchVars ==
    <<op, limit, rss_source, retry_config, pc, session, attempt, html, slept,
      requests_made, last_response, accepted_at, failed_step, outcome>>

gatherVars ==
    <<has_callback, gpc, started, tasks, completion_order, results_list, idx, results,
      callbacks>>

uiVars ==
    <<is_running, start_btn, stop_btn, export_btn, self_results, all_articles, runs,
      stop_count>>

exportVars == <<exports>>

collectVars == <<c_op, c_results, c_i, c_all, c_total, c_pc>>

vars == <<fetchVars, gatherVars, uiVars, exportVars, collectVars>>

\* The state of the part of the program a specification leaves alone.
FetchIdle ==
    /\ op = "none" /\ limit = MaxLimit /\ rss_source = "none"
    /\ retry_config = DefaultRetryConfig /\ pc = "idle" /\ session = "none"
    /\ attempt = 0 /\ html = [present |-> FALSE, empty |-> TRUE, doc |-> <<>>]
    /\ slept = <<>> /\ requests_made = 0
    /\ last_response = [kind |-> "none", status |-> 0, text_raises |-> FALSE]
    /\ accepted_at = -1 /\ failed_step = "none"
    /\ outcome = Returned(NoResult)

GatherIdle ==
    /\ has_callback = FALSE /\ gpc = "idle" /\ started = {} /\ tasks = <<>>
    /\ completion_order = <<>>
    /\ results_list = <<>> /\ idx = 0 /\ results = <<>> /\ callbacks = <<>>

\* src/scrapper.py:321-323, 401-425: the window as constructed, no run started
UIIdle ==
    /\ is_running = FALSE /\ start_btn = "normal" /\ stop_btn = "disabled"
    /\ export_btn = "disabled" /\ self_results = <<>> /\ all_articles = <<>>
    /\ runs = <<>> /\ stop_count = 0

ExportIdle == exports = <<>>

CollectIdle ==
    /\ c_op = "none" /\ c_results = <<>> /\ c_i = 0 /\ c_all = <<>> /\ c_total = 0
    /\ c_pc = "idle"

\* --------------------------------------------------- one fetch operation
FetchOps ==
    {"scrape_dark_reading", "scrape_bleeping_computer", "scrape_krebs_security",
     "fetch_rss_feed"}

\* What one session.get gives: an exception (timeout, connection error), or a
\* response with a status whose text() gives a body or raises.
Responses ==
    { [kind |-> "exception", status |-> 0, text_raises |-> FALSE] } \cup
    [kind : {"response"}, status : {HTTP_OK, 204, 404}, text_raises : BOOLEAN]

\* src/scrapper.py:68, a variant accepting every 2xx status
AcceptedAny2xx(r) ==
    r.kind = "response" /\ r.status >= 200 /\ r.status < 300 /\ ~r.text_raises

\* src/scrapper.py:67-71: the attempt returns the body
Accepted(r) ==
    r.kind = "response" /\ r.status = HTTP_OK /\ ~r.text_raises

InitFetch ==
    /\ op \in FetchOps
    /\ limit \in 1..MaxLimit
    /\ rss_source \in IF op = "fetch_rss_feed" THEN {"gb_hackers", "security_week", "unknown"}
                      ELSE {"gb_hackers"}
    /\ retry_config \in IF op = "scrape_krebs_security" THEN RetryConfigs
                        ELSE {DefaultRetryConfig}
    /\ pc = "start"
    /\ session = "none"
    /\ attempt = 0
    /\ html = NoHtml
    /\ slept = <<>>
    /\ requests_made = 0
    /\ last_response = [kind |-> "none", status |-> 0, text_raises |-> FALSE]
    /\ accepted_at = -1
    /\ failed_step = "none"
    /\ outcome = Returned(NoResult)
    /\ GatherIdle
    /\ UIIdle
    /\ ExportIdle
    /\ CollectIdle

\* The call ends: an exception raised at `step` reaches the except clause.
Fail(step, e) ==
    /\ failed_step' = step
    /\ outcome' = Handler("krebs_security", e)
    /\ pc' = IF Handler("krebs_security", e).raised THEN "raised" ELSE "done"

\* src/scrapper.py:75-100, 102-127, 194-227: the feed operations, each one step
FeedFetch ==
    /\ pc = "start"
    /\ op # "scrape_krebs_security"
    /\ \E feed \in Feeds :
         LET o == CASE op = "scrape_dark_reading" -> scrape_dark_reading(limit, feed)
                    [] op = "scrape_bleeping_computer" -> scrape_bleeping_computer(limit, feed)
                    [] OTHER -> fetch_rss_feed(rss_source, limit, feed)
         IN /\ outcome' = o
            /\ pc' = IF o.raised THEN "raised" ELSE "done"
            /\ failed_step' = IF feed.raises /\ (op # "fetch_rss_feed" \/ rss_source \in rss_feeds)
                              THEN "parse" ELSE "none"
    /\ UNCHANGED <<op, limit, rss_source, retry_config, session, attempt, html, slept,
                   requests_made, last_response, accepted_at>>
    /\ UNCHANGED <<gatherVars, uiVars, exportVars, collectVars>>

\* src/scrapper.py:131 (and 50-54): await self.setup_session()
SetupSession ==
    /\ pc = "start"
    /\ op = "scrape_krebs_security"
    /\ \/ /\ session' = "open"
          /\ pc' = "retry"
          /\ UNCHANGED <<failed_step, outcome>>
       \/ /\ Fail("setup_session", "session error")
          /\ UNCHANGED session
    /\ UNCHANGED <<op, limit, rss_source, retry_config, attempt, html, slept,
                   requests_made, last_response, accepted_at>>
    /\ UNCHANGED <<gatherVars, uiVars, exportVars, collectVars>>

\* src/scrapper.py:57-65: an iteration starts, the delay is computed and, from
\* the second attempt on, slept
RetryDelay ==
    /\ pc = "retry"
    /\ attempt < retry_config.max_retries
    /\ slept' = IF attempt > 0 THEN Append(slept, Delay(retry_config, attempt)) ELSE slept
    /\ pc' = "request"
    /\ UNCHANGED <<op, limit, rss_source, retry_config, session, attempt, html,
                   requests_made, last_response, accepted_at, failed_step, outcome>>
    /\ UNCHANGED <<gatherVars, uiVars, exportVars, collectVars>>

\* src/scrapper.py:67-71, a variant in which an accepted response does not end
\* the loop
RequestKeepsGoing ==
    /\ pc = "request"
    /\ \E r \in Responses :
         /\ requests_made' = requests_made + 1
         /\ last_response' = r
         /\ attempt' = attempt + 1
         /\ pc' = "retry"
         /\ IF Accepted(r)
            THEN /\ \E b \in Bodies : html' = Html(b)
                 /\ accepted_at' = attempt
            ELSE UNCHANGED <<html, accepted_at>>
    /\ UNCHANGED <<op, limit, rss_source, retry_config, session, slept, failed_step, outcome>>
    /\ UNCHANGED <<gatherVars, uiVars, exportVars, collectVars>>

\* src/scrapper.py:67-71: the request of this attempt; an accepted response is
\* returned, anything else (the exception is logged) leads to the next attempt
Request ==
    /\ pc = "request"
    /\ \E r \in Responses :
         /\ requests_made' = requests_made + 1
         /\ last_response' = r
         /\ IF Accepted(r)
            THEN /\ \E b \in Bodies : html' = Html(b)
                 /\ accepted_at' = attempt
                 /\ pc' = "check_html"
                 /\ UNCHANGED attempt
            ELSE /\ attempt' = attempt + 1
                 /\ pc' = "retry"
                 /\ UNCHANGED <<html, accepted_at>>
    /\ UNCHANGED <<op, limit, rss_source, retry_config, session, slept, failed_step, outcome>>
    /\ UNCHANGED <<gatherVars, uiVars, exportVars, collectVars>>

\* src/scrapper.py:57, 73, a variant that gives up one attempt early
RetryExhaustedEarly ==
    /\ pc = "retry"
    /\ attempt >= retry_config.max_retries - 1
    /\ html' = NoHtml
    /\ pc' = "check_html"
    /\ UNCHANGED <<op, limit, rss_source, retry_config, session, attempt, slept,
                   requests_made, last_response, accepted_at, failed_step, outcome>>
    /\ UNCHANGED <<gatherVars, uiVars, exportVars, collectVars>>

\* src/scrapper.py:57, 73: the loop is exhausted, scrape_with_retry returns None
RetryExhausted ==
    /\ pc = "retry"
    /\ attempt >= retry_config.max_retries
    /\ html' = NoHtml
    /\ pc' = "check_html"
    /\ UNCHANGED <<op, limit, rss_source, retry_config, session, attempt, slept,
                   requests_made, last_response, accepted_at, failed_step, outcome>>
    /\ UNCHANGED <<gatherVars, uiVars, exportVars, collectVars>>

\* src/scrapper.py:134-136: no html (None or an empty text): the session is
\* closed and the error result returned
FetchFailed ==
    /\ pc = "check_html"
    /\ ~html.present \/ html.empty
    /\ \/ /\ session' = "closed"
          /\ outcome' = Returned(ScrapingResult("krebs_security", <<>>, "error",
                                                Some("Failed to fetch")))
          /\ pc' = "done"
          /\ UNCHANGED failed_step
       \/ /\ Fail("close", "close error")
          /\ UNCHANGED session
    /\ UNCHANGED <<op, limit, rss_source, retry_config, attempt, html, slept,
                   requests_made, last_response, accepted_at>>
    /\ UNCHANGED <<gatherVars, uiVars, exportVars, collectVars>>

\* src/scrapper.py:138-176: the document is parsed, the articles collected, the
\* session closed and the success result returned; BeautifulSoup or the close
\* may raise
ParseAndClose ==
    /\ pc = "check_html"
    /\ html.present /\ ~html.empty
    /\ \/ /\ Fail("parse", "parser error")
          /\ UNCHANGED session
       \/ /\ Fail("close", "close error")
          /\ UNCHANGED session
       \/ /\ session' = "closed"
          /\ outcome' = Returned(ScrapingResult("krebs_security",
                                     ParseArticles(html.doc, limit), "success", None))
          /\ pc' = "done"
          /\ UNCHANGED failed_step
    /\ UNCHANGED <<op, limit, rss_source, retry_config, attempt, html, slept,
                   requests_made, last_response, accepted_at>>
    /\ UNCHANGED <<gatherVars, uiVars, exportVars, collectVars>>

NextFetch ==
    \/ FeedFetch
    \/ SetupSession
    \/ RetryDelay
    \/ Request
    \/ RetryExhausted
    \/ FetchFailed
    \/ ParseAndClose

SpecFetch == InitFetch /\ [][NextFetch]_vars

\* The asyncio loop runs the coroutine until it completes, and every await in
\* it completes (the session has a total timeout, the sleeps are finite).
FairSpecFetch == SpecFetch /\ WF_vars(NextFetch)

\* ------------------------------------------------------ properties, fetch
RECURSIVE Sum(_)
Sum(seq) == IF seq = <<>> THEN 0 ELSE Head(seq) + Sum(Tail(seq))

Krebs == op = "scrape_krebs_security"
Finished == pc \in {"done", "raised"}
\* scrape_with_retry has returned None: every attempt failed
GaveUp == Krebs /\ pc \in {"check_html", "done", "raised"} /\ attempt >= retry_config.max_retries

\* C2: every fetch operation ends by returning a ScrapingResult; a failure at
\* any step inside it gives a result with status = error, never an exception
\* raised to the caller.
C2_FailsOnlyByErrorResult ==
    /\ pc # "raised"
    /\ ~outcome.raised
    /\ pc = "done" => outcome.value.status \in {"success", "error"}
    /\ failed_step # "none" => pc = "done" /\ outcome.value.status = "error"

C2_Witness ==
    /\ Krebs /\ pc = "done" /\ failed_step = "close" /\ accepted_at # -1
    /\ outcome.value.status = "error"

\* C5: with the program's retry configuration the retry loop ends; when every
\* attempt fails it has made exactly 3 requests, slept 2 and then 4 (6 in
\* all, nothing before attempt 0) and returned no document; a 4th request is
\* never made.
C5_DefaultConfigGivesUpAfterThree ==
    /\ [](retry_config = DefaultRetryConfig =>
            /\ requests_made <= 3
            /\ (pc = "request" /\ attempt = 0) => slept = <<>>
            /\ (pc = "request" /\ attempt = 1) => slept = <<2>>
            /\ (pc = "request" /\ attempt = 2) => slept = <<2, 4>>
            /\ GaveUp => /\ requests_made = 3
                         /\ slept = <<2, 4>>
                         /\ Sum(slept) = 6
                         /\ ~html.present)
    /\ <>Finished

C5_Witness ==
    /\ retry_config = DefaultRetryConfig /\ GaveUp /\ pc = "check_html"
    /\ requests_made = 3 /\ last_response.kind = "exception"

\* C6: for every retry configuration, the k-th sleep is the one before attempt
\* k (k >= 1) and lasts min(base_delay * backoff_factor^k, max_delay), hence
\* at most max_delay; nothing is slept before attempt 0.
C6_DelayFormula ==
    Krebs =>
      /\ \A k \in 1..Len(slept) :
            /\ slept[k] = IF retry_config.base_delay * Pow(retry_config.backoff_factor, k)
                             <= retry_config.max_delay
                          THEN retry_config.base_delay * Pow(retry_config.backoff_factor, k)
                          ELSE retry_config.max_delay
            /\ slept[k] <= retry_config.max_delay
      /\ pc = "request" => Len(slept) = attempt
      /\ pc = "retry" => Len(slept) = IF attempt = 0 THEN 0 ELSE attempt - 1

C6_Witness ==
    /\ Krebs /\ pc = "request" /\ attempt = 2
    /\ retry_config.max_delay = 3 /\ retry_config.base_delay = 2
    /\ slept = <<3, 3>>

\* C7 as stated: every 2xx response whose body can be read ends the loop, and
\* only such a response does.
C7_Every2xxAccepted ==
    (Krebs /\ last_response.kind # "none") =>
      ((accepted_at # -1) <=>
         /\ last_response.kind = "response"
         /\ last_response.status >= 200 /\ last_response.status < 300
         /\ ~last_response.text_raises)

\* C7 amended: an attempt succeeds exactly when the response status is 200 and
\* its body is read without an exception; the loop then ends with that body.
\* Every other response (other 2xx codes included), and every exception, is a
\* failed attempt, after which the loop goes on to the next attempt.
C7_Only200Accepted ==
    (Krebs /\ last_response.kind # "none") =>
      /\ (accepted_at # -1) <=>
            /\ last_response.kind = "response"
            /\ last_response.status = 200
            /\ ~last_response.text_raises
      /\ accepted_at # -1 =>
            /\ pc \in {"check_html", "done", "raised"}
            /\ html.present
            /\ accepted_at = attempt /\ requests_made = attempt + 1
      /\ accepted_at = -1 =>
            /\ attempt = requests_made
            /\ ~html.present
            /\ pc \in {"retry", "request"} \/ GaveUp

C7_Witness ==
    /\ Krebs /\ pc = "request" /\ attempt = 1 /\ accepted_at = -1
    /\ last_response.kind = "response" /\ last_response.status = 204
    /\ ~last_response.text_raises

\* C8 as stated: when no attempt succeeds the result is an error with no
\* articles and the cause "fetch failed", and an error result comes only
\* after all max_retries attempts.
C8_ErrorOnlyAfterAllAttempts ==
    (Krebs /\ pc = "done") =>
      /\ GaveUp => /\ outcome.value.status = "error"
                   /\ outcome.value.articles = <<>>
                   /\ outcome.value.error = Some("fetch failed")
      /\ outcome.value.status = "error" => requests_made = retry_config.max_retries

\* C8 amended: when every attempt fails, all max_retries attempts have been
\* made and the result is an error with no articles whose cause is "Failed to
\* fetch" (or the exception's text when closing the session raised).  An error
\* result after fewer attempts comes only from an exception raised at a step
\* of the operation or from an accepted response with an empty body.
C8_ErrorAfterRetries ==
    (Krebs /\ pc = "done") =>
      /\ GaveUp => /\ requests_made = retry_config.max_retries
                   /\ outcome.value.status = "error"
                   /\ outcome.value.articles = <<>>
                   /\ \/ outcome.value.error = Some("Failed to fetch")
                      \/ failed_step = "close" /\ outcome.value.error = Some("close error")
      /\ (outcome.value.status = "error" /\ requests_made < retry_config.max_retries) =>
            \/ failed_step # "none"
            \/ accepted_at # -1 /\ html.empty
      /\ (outcome.value.status = "error" /\ failed_step = "none") =>
            outcome.value.error = Some("Failed to fetch")

C8_Witness ==
    /\ Krebs /\ pc = "done" /\ GaveUp /\ failed_step = "none"
    /\ retry_config.max_retries = 3 /\ requests_made = 3
    /\ outcome.value.error = Some("Failed to fetch")

\* C9: every result a fetch operation returns has status success or error, an
\* error text exactly when the status is error, and no articles when the
\* status is error.
C9_ResultWellFormed ==
    pc = "done" =>
      LET r == outcome.value IN
      /\ r.status \in {"success", "error"}
      /\ (r.error # None) <=> (r.status = "error")
      /\ r.status = "error" => r.articles = <<>>

C9_Witness ==
    /\ pc = "done" /\ op = "fetch_rss_feed" /\ failed_step = "parse"
    /\ outcome.value.status = "error" /\ outcome.value.error # None

\* ------------------------------------------------- scrape_all_async (Spec)
\* all_tasks, src/scrapper.py:240-252: the six tasks in submission order
Tasks == 1..6

\* src/scrapper.py:241-249: the source each task fetches
TaskSource(i) ==
    CASE i = 1 -> "dark_reading"
      [] i = 2 -> "bleeping_computer"
      [] i = 3 -> "krebs_security"
      [] i = 4 -> "gb_hackers"
      [] i = 5 -> "the_hacker_news"
      [] OTHER -> "security_week"

\* src/scrapper.py:246-250: the tasks run through asyncio.to_thread
Offloaded(i) == i \in 4..6

\* result.source.lower().replace(' ', '_'), src/scrapper.py:258
NormalizeKey(source) ==
    CASE source = "Dark Reading" -> "dark_reading"
      [] source = "Bleeping Computer" -> "bleeping_computer"
      [] source = "Krebs on Security" -> "krebs_on_security"
      [] source = "Gb Hackers" -> "gb_hackers"
      [] source = "The Hacker News" -> "the_hacker_news"
      [] source = "Security Week" -> "security_week"
      [] OTHER -> source

\* The feeds and pages the tasks of one batch meet.
BatchFeeds ==
    { [raises |-> TRUE, entries |-> <<>>],
      [raises |-> FALSE,
       entries |-> << [title |-> TRUE, link |-> TRUE, author |-> FALSE, broken |-> FALSE] >>] }

\* src/scrapper.py:129-179: what scrape_krebs_security hands over in a batch
KrebsOutcomes ==
    { Returned(ScrapingResult("krebs_security", <<>>, "error", Some("Failed to fetch"))),
      Returned(ScrapingResult("krebs_security",
          ParseArticles(<< [title |-> "entry-title", link |-> "href", broken |-> FALSE] >>, limit),
          "success", None)) }

\* src/scrapper.py:240-250: what task i can hand to gather: the result of its
\* fetch operation, or, for an offloaded task, the exception of a failed
\* hand-over to the thread pool (raised outside fetch_rss_feed)
TaskOutcomes(i) ==
    CASE i = 1 -> { scrape_dark_reading(limit, f) : f \in BatchFeeds }
      [] i = 2 -> { scrape_bleeping_computer(limit, f) : f \in BatchFeeds }
      [] i = 3 -> KrebsOutcomes
      [] OTHER -> { fetch_rss_feed(TaskSource(i), limit, f) : f \in BatchFeeds }
                    \cup { Raised("RuntimeError") }

\* The program's one call passes self.update_stat_card (src/scrapper.py:706).
InitGather ==
    /\ has_callback = TRUE
    /\ gpc = "gather"
    /\ started = Tasks
    /\ tasks = [i \in Tasks |-> [done |-> FALSE, outcome |-> Returned(NoResult)]]
    /\ completion_order = <<>>
    /\ results_list = <<>>
    /\ idx = 0
    /\ results = <<>>
    /\ callbacks = <<>>

Init == FetchIdle /\ InitGather /\ UIIdle /\ ExportIdle /\ CollectIdle

Pending == { i \in Tasks : ~tasks[i].done }

\* src/scrapper.py:253: a task dispatched by gather completes
TaskCompletes(i) ==
    /\ gpc = "gather"
    /\ ~tasks[i].done
    /\ \E o \in TaskOutcomes(i) :
         tasks' = [tasks EXCEPT ![i] = [done |-> TRUE, outcome |-> o]]
    /\ completion_order' = Append(completion_order, i)
    /\ UNCHANGED <<started, has_callback, gpc, results_list, idx, results, callbacks>>
    /\ UNCHANGED <<fetchVars, uiVars, exportVars, collectVars>>

\* src/scrapper.py:253, a variant handing the results over in completion order
GatherResolvesAsCompleted ==
    /\ gpc = "gather"
    /\ Pending = {}
    /\ results_list' = [k \in Tasks |-> tasks[completion_order[k]].outcome]
    /\ results' = <<>>
    /\ idx' = 1
    /\ gpc' = "loop"
    /\ UNCHANGED <<started, has_callback, tasks, completion_order, callbacks>>
    /\ UNCHANGED <<fetchVars, uiVars, exportVars, collectVars>>

\* src/scrapper.py:253: gather(return_exceptions=True) resumes the caller once
\* every task is done, with the results (or exceptions) in submission order
GatherResolves ==
    /\ gpc = "gather"
    /\ Pending = {}
    /\ results_list' = [i \in Tasks |-> tasks[i].outcome]
    /\ results' = <<>>
    /\ idx' = 1
    /\ gpc' = "loop"
    /\ UNCHANGED <<started, has_callback, tasks, completion_order, callbacks>>
    /\ UNCHANGED <<fetchVars, uiVars, exportVars, collectVars>>

\* results[key] = value on a dict that keeps insertion order
DictSet(d, k, v) ==
    IF \E j \in 1..Len(d) : d[j].key = k
    THEN [j \in 1..Len(d) |-> IF d[j].key = k THEN [key |-> k, value |-> v] ELSE d[j]]
    ELSE Append(d, [key |-> k, value |-> v])

\* src/scrapper.py:257-259, 726-727: a ScrapingResult is stored under its
\* normalized source; anything else (an exception gather returned) is skipped
StoreResult(d, r) ==
    IF ~r.raised THEN DictSet(d, NormalizeKey(r.value.source), r.value) ELSE d

\* src/scrapper.py:255-259: the dict the whole result loop builds from the
\* first n entries of rl (d is the dict after the first n - 1 iterations)
RECURSIVE BuildResults(_, _)
BuildResults(rl, n) ==
    IF n = 0 THEN <<>>
    ELSE CHOOSE out \in {StoreResult(d, rl[n]) : d \in {BuildResults(rl, n - 1)}} : TRUE

\* src/scrapper.py:256-261: one iteration of the result loop
LoopStep ==
    /\ gpc = "loop"
    /\ idx <= Len(results_list)
    /\ LET r == results_list[idx]
           source_key == NormalizeKey(r.value.source)
       IN IF ~r.raised
          THEN /\ results' = StoreResult(results, r)
               /\ callbacks' = IF has_callback
                               THEN Append(callbacks, [key |-> source_key, result |-> r.value,
                                                       in_flight |-> Cardinality(Pending)])
                               ELSE callbacks
          ELSE UNCHANGED <<results, callbacks>>
    /\ idx' = idx + 1
    /\ UNCHANGED <<started, has_callback, gpc, tasks, completion_order, results_list>>
    /\ UNCHANGED <<fetchVars, uiVars, exportVars, collectVars>>

\* src/scrapper.py:263
ReturnResults ==
    /\ gpc = "loop"
    /\ idx > Len(results_list)
    /\ gpc' = "returned"
    /\ UNCHANGED <<started, has_callback, tasks, completion_order, results_list, idx, results, callbacks>>
    /\ UNCHANGED <<fetchVars, uiVars, exportVars, collectVars>>

Next ==
    \/ \E i \in Tasks : TaskCompletes(i)
    \/ GatherResolves
    \/ LoopStep
    \/ ReturnResults

Spec == Init /\ [][Next]_vars

\* --------------------------------------------- properties, scrape_all_async
\* The positions of dict d that hold key k
KeyPositions(d, k) == { j \in 1..Len(d) : d[j].key = k }
\* The position of task i in the completion order
CompletedAt(i) == CHOOSE k \in 1..Len(completion_order) : completion_order[k] = i
\* The task whose source has the key k
TaskOfKey(k) == CHOOSE i \in Tasks : TaskSource(i) = k
\* The tasks, in submission order, among the first n whose outcome is a result
RECURSIVE ResultTasks(_)
ResultTasks(n) ==
    IF n = 0 THEN <<>>
    ELSE IF results_list[n].raised THEN ResultTasks(n - 1)
    ELSE Append(ResultTasks(n - 1), n)

\* C1: whatever the six tasks hand over (a success result, an error result or
\* an exception), the returned map has exactly one entry per dispatched
\* fetcher, under that fetcher's source key, holding the result the fetcher
\* produced.
C1_OneEntryPerFetcher ==
    gpc = "returned" =>
      /\ Len(results) = Cardinality(Tasks)
      /\ \A i \in Tasks :
           /\ Cardinality(KeyPositions(results, TaskSource(i))) = 1
           /\ ~tasks[i].outcome.raised =>
                \A j \in KeyPositions(results, TaskSource(i)) :
                    results[j].value = tasks[i].outcome.value

C4_CallbackOncePerSource ==
    /\ \A i \in Tasks :
         Cardinality({ k \in 1..Len(callbacks) : callbacks[k].key = TaskSource(i) }) <= 1
    /\ gpc = "returned" =>
         \A i \in Tasks :
            Cardinality({ k \in 1..Len(callbacks) : callbacks[k].key = TaskSource(i) }) = 1

\* ------------------------------------------ the window and its runs (SpecUI)
Runs == 1..MaxRuns

\* src/scrapper.py:712-713: the sources of the RSS mode, in the order fetched
RssSource(k) ==
    CASE k = 1 -> "gb_hackers"
      [] k = 2 -> "the_hacker_news"
      [] k = 3 -> "security_week"
      [] k = 4 -> "dark_reading"
      [] k = 5 -> "bleeping_computer"
      [] OTHER -> "krebs_security"

\* What the fetches of one run meet: every source delivers, the last source
\* fails, a hand-over to the thread pool raises, every source fails, or every
\* source delivers a feed or page without entries.
BatchKinds == {"all_succeed", "one_fails", "offload_raises", "all_fail", "all_empty"}

EmptyFeed == [raises |-> FALSE, entries |-> <<>>]

Succeeds(o) == ~o.raised /\ o.value.status = "success"
Errs(o) == ~o.raised /\ o.value.status = "error"

\* src/scrapper.py:240-253: the results_list of a run in async mode
AsyncBatch(kind) ==
    [i \in Tasks |->
        IF kind = "all_empty"
        THEN CASE i = 1 -> scrape_dark_reading(limit, EmptyFeed)
               [] i = 2 -> scrape_bleeping_computer(limit, EmptyFeed)
               [] i = 3 -> Returned(ScrapingResult("krebs_security",
                                        ParseArticles(<<>>, limit), "success", None))
               [] OTHER -> fetch_rss_feed(TaskSource(i), limit, EmptyFeed)
        ELSE IF kind = "all_fail" THEN CHOOSE o \in TaskOutcomes(i) : Errs(o)
        ELSE IF kind = "one_fails" /\ i = 3 THEN CHOOSE o \in TaskOutcomes(i) : Errs(o)
        ELSE IF kind = "offload_raises" /\ i = 4 THEN Raised("RuntimeError")
        ELSE CHOOSE o \in TaskOutcomes(i) : Succeeds(o)]

\* src/scrapper.py:711-722: what the six fetches of a run in RSS mode hand over
RssBatch(kind) ==
    [k \in Tasks |->
        IF kind = "all_empty" THEN fetch_rss_feed(RssSource(k), limit, EmptyFeed)
        ELSE IF kind = "all_fail" \/ (kind = "one_fails" /\ k = 6)
        THEN fetch_rss_feed(RssSource(k), limit, [raises |-> TRUE, entries |-> <<>>])
        ELSE IF kind = "offload_raises" /\ k = 1 THEN Raised("RuntimeError")
        ELSE fetch_rss_feed(RssSource(k), limit, CHOOSE f \in BatchFeeds : ~f.raises)]

IdleRun ==
    [pc |-> "idle", mode |-> "none", batch |-> <<>>, local |-> <<>>, si |-> 0,
     failed |-> FALSE, stopped |-> FALSE, overlapped |-> FALSE]

InitUI ==
    /\ is_running = FALSE
    /\ start_btn = "normal"
    /\ stop_btn = "disabled"
    /\ export_btn = "disabled"
    /\ self_results = <<>>
    /\ all_articles = <<>>
    /\ runs = [r \in Runs |-> IdleRun]
    /\ stop_count = 0
    /\ FetchIdle
    /\ GatherIdle
    /\ ExportIdle
    /\ CollectIdle

InFlight(r) == runs[r].pc \notin {"idle", "done"}

\* src/scrapper.py:667-683: the start button is pressed; the handler starts a
\* new background thread (runs[r].overlapped notes the runs that were in
\* flight together with another one)
StartScraping ==
    /\ start_btn = "normal"
    /\ \E r \in Runs :
         /\ runs[r].pc = "idle"
         /\ \A q \in Runs : q < r => runs[q].pc # "idle"
         /\ runs' = [q \in Runs |->
                       IF q = r
                       THEN [runs[q] EXCEPT !.pc = "reset",
                                            !.overlapped = \E o \in Runs : InFlight(o)]
                       ELSE IF InFlight(q) THEN [runs[q] EXCEPT !.overlapped = TRUE]
                       ELSE runs[q]]
    /\ is_running' = TRUE
    /\ start_btn' = "disabled"
    /\ stop_btn' = "normal"
    /\ export_btn' = "disabled"
    /\ UNCHANGED <<self_results, all_articles, stop_count>>
    /\ UNCHANGED <<fetchVars, gatherVars, exportVars, collectVars>>

\* src/scrapper.py:793-799, a variant in which stop ends the runs in flight
StopScrapingCancels ==
    /\ stop_btn = "normal"
    /\ is_running' = FALSE
    /\ start_btn' = "normal"
    /\ stop_btn' = "disabled"
    /\ stop_count' = stop_count + 1
    /\ runs' = [r \in Runs |->
                  IF InFlight(r) THEN [runs[r] EXCEPT !.stopped = TRUE, !.pc = "done"]
                  ELSE runs[r]]
    /\ UNCHANGED <<export_btn, self_results, all_articles>>
    /\ UNCHANGED <<fetchVars, gatherVars, exportVars, collectVars>>

\* src/scrapper.py:793-799: the stop button is pressed (runs[r].stopped notes
\* the runs that were in flight)
StopScraping ==
    /\ stop_btn = "normal"
    /\ is_running' = FALSE
    /\ start_btn' = "normal"
    /\ stop_btn' = "disabled"
    /\ stop_count' = stop_count + 1
    /\ runs' = [r \in Runs |->
                  IF InFlight(r) THEN [runs[r] EXCEPT !.stopped = TRUE] ELSE runs[r]]
    /\ UNCHANGED <<export_btn, self_results, all_articles>>
    /\ UNCHANGED <<fetchVars, gatherVars, exportVars, collectVars>>

\* src/scrapper.py:687-701: the thread resets the cards and all_articles and
\* reads the mode chosen in the window
RunReset(r) ==
    /\ runs[r].pc = "reset"
    /\ all_articles' = <<>>
    /\ \E m \in {"async", "rss"} :
         runs' = [runs EXCEPT ![r].mode = m, ![r].pc = "fetch"]
    /\ UNCHANGED <<is_running, start_btn, stop_btn, export_btn, self_results, stop_count>>
    /\ UNCHANGED <<fetchVars, gatherVars, exportVars, collectVars>>

\* src/scrapper.py:703-707: scrape_all_async runs to its return (236-263)
RunFetchAsync(r) ==
    /\ runs[r].pc = "fetch"
    /\ runs[r].mode = "async"
    /\ \E kind \in BatchKinds : \E b \in {AsyncBatch(kind)} :
         runs' = [runs EXCEPT ![r].batch = b,
                              ![r].local = BuildResults(b, Len(b)),
                              ![r].pc = "assign"]
    /\ UNCHANGED <<is_running, start_btn, stop_btn, export_btn, self_results, all_articles,
                   stop_count>>
    /\ UNCHANGED <<fetchVars, gatherVars, exportVars, collectVars>>

\* src/scrapper.py:705, a variant in which the run looks at the stop flag
\* before it publishes
RunAssignHonoursStop(r) ==
    /\ runs[r].pc = "assign"
    /\ IF is_running
       THEN /\ self_results' = runs[r].local
            /\ runs' = [runs EXCEPT ![r].pc = "collect"]
       ELSE /\ runs' = [runs EXCEPT ![r].pc = "finish"]
            /\ UNCHANGED self_results
    /\ UNCHANGED <<is_running, start_btn, stop_btn, export_btn, all_articles, stop_count>>
    /\ UNCHANGED <<fetchVars, gatherVars, exportVars, collectVars>>

\* src/scrapper.py:705: self.results = the map scrape_all_async returned
RunAssign(r) ==
    /\ runs[r].pc = "assign"
    /\ self_results' = runs[r].local
    /\ runs' = [runs EXCEPT ![r].pc = "collect"]
    /\ UNCHANGED <<is_running, start_btn, stop_btn, export_btn, all_articles, stop_count>>
    /\ UNCHANGED <<fetchVars, gatherVars, exportVars, collectVars>>

\* src/scrapper.py:708-722: the six feeds are fetched one after the other; an
\* exception of a fetch's hand-over ends the run in its except clause (747-749)
RunFetchRss(r) ==
    /\ runs[r].pc = "fetch"
    /\ runs[r].mode = "rss"
    /\ \E kind \in BatchKinds : \E b \in {RssBatch(kind)} :
         IF \E k \in Tasks : b[k].raised
         THEN runs' = [runs EXCEPT ![r].failed = TRUE, ![r].pc = "finish"]
         ELSE runs' = [runs EXCEPT ![r].batch = b, ![r].pc = "clear"]
    /\ UNCHANGED <<is_running, start_btn, stop_btn, export_btn, self_results, all_articles,
                   stop_count>>
    /\ UNCHANGED <<fetchVars, gatherVars, exportVars, collectVars>>

\* src/scrapper.py:724: self.results = {}
RunClear(r) ==
    /\ runs[r].pc = "clear"
    /\ self_results' = <<>>
    /\ runs' = [runs EXCEPT ![r].si = 1, ![r].pc = "store"]
    /\ UNCHANGED <<is_running, start_btn, stop_btn, export_btn, all_articles, stop_count>>
    /\ UNCHANGED <<fetchVars, gatherVars, exportVars, collectVars>>

\* src/scrapper.py:725-728: one iteration of the RSS mode's result loop
RunStore(r) ==
    /\ runs[r].pc = "store"
    /\ LET k == runs[r].si
           res == runs[r].batch[k]
       IN /\ self_results' = StoreResult(self_results, res)
          /\ runs' = [runs EXCEPT ![r].si = k + 1,
                                  ![r].pc = IF k + 1 > Len(runs[r].batch)
                                            THEN "collect" ELSE "store"]
    /\ UNCHANGED <<is_running, start_btn, stop_btn, export_btn, all_articles, stop_count>>
    /\ UNCHANGED <<fetchVars, gatherVars, exportVars, collectVars>>

\* src/scrapper.py:734-737: the articles of the successful results of d, in d's
\* order
RECURSIVE Flatten(_)
Flatten(d) ==
    IF d = <<>> THEN <<>>
    ELSE (IF Head(d).value.status = "success" THEN Head(d).value.articles ELSE <<>>)
         \o Flatten(Tail(d))

\* src/scrapper.py:732-745: the articles are collected and the export button
\* enabled
RunCollect(r) ==
    /\ runs[r].pc = "collect"
    /\ all_articles' = all_articles \o Flatten(self_results)
    /\ export_btn' = "normal"
    /\ runs' = [runs EXCEPT ![r].pc = "finish"]
    /\ UNCHANGED <<is_running, start_btn, stop_btn, self_results, stop_count>>
    /\ UNCHANGED <<fetchVars, gatherVars, exportVars, collectVars>>

\* src/scrapper.py:750-753: the finally clause; the thread ends, its locals go
RunFinish(r) ==
    /\ runs[r].pc = "finish"
    /\ is_running' = FALSE
    /\ start_btn' = "normal"
    /\ stop_btn' = "disabled"
    /\ runs' = [runs EXCEPT ![r] = [IdleRun EXCEPT !.pc = "done",
                                                   !.failed = runs[r].failed,
                                                   !.stopped = runs[r].stopped,
                                                   !.overlapped = runs[r].overlapped]]
    /\ UNCHANGED <<export_btn, self_results, all_articles, stop_count>>
    /\ UNCHANGED <<fetchVars, gatherVars, exportVars, collectVars>>

RunStep(r) ==
    \/ RunReset(r)
    \/ RunFetchAsync(r)
    \/ RunAssign(r)
    \/ RunFetchRss(r)
    \/ RunClear(r)
    \/ RunStore(r)
    \/ RunCollect(r)
    \/ RunFinish(r)

NextUI ==
    \/ StartScraping
    \/ StopScraping
    \/ \E r \in Runs : RunStep(r)

SpecUI == InitUI /\ [][NextUI]_vars

\* A started thread keeps being scheduled, and every fetch it waits for ends
\* (by a result, an error or an exception).
FairSpecUI == SpecUI /\ \A r \in Runs : WF_vars(RunStep(r))

\* --------------------------- the feed-only branch of run_scraping (SpecRss)
\* src/scrapper.py:716-721: what the fetch of the k-th source hands to the
\* loop: the result of fetch_rss_feed, or the exception of a failed hand-over
\* to the thread pool
RssOutcomes(k) ==
    { fetch_rss_feed(RssSource(k), limit, f) : f \in BatchFeeds } \cup { Raised("RuntimeError") }

\* src/scrapper.py:711-713: the loop over the sources is about to start
InitRss ==
    /\ has_callback = TRUE
    /\ gpc = "rss_loop"
    /\ started = {}
    /\ tasks = [k \in Tasks |-> [done |-> FALSE, outcome |-> Returned(NoResult)]]
    /\ completion_order = <<>>
    /\ results_list = <<>>
    /\ idx = 1
    /\ results = <<>>
    /\ callbacks = <<>>
    /\ FetchIdle /\ UIIdle /\ ExportIdle /\ CollectIdle

\* src/scrapper.py:714-721: asyncio.to_thread hands the fetch of the next
\* source to a worker thread and run_until_complete starts waiting for it
RssDispatch ==
    /\ gpc = "rss_loop"
    /\ idx <= Cardinality(Tasks)
    /\ idx \notin started
    /\ started' = started \cup {idx}
    /\ UNCHANGED <<has_callback, gpc, tasks, completion_order, results_list, idx, results,
                   callbacks>>
    /\ UNCHANGED <<fetchVars, uiVars, exportVars, collectVars>>

\* src/scrapper.py:715-722: the fetch being waited for ends; its result is
\* appended to rss_tasks, its exception ends the run in the except clause
RssCompletes ==
    /\ gpc = "rss_loop"
    /\ idx \in started
    /\ ~tasks[idx].done
    /\ \E o \in RssOutcomes(idx) :
         /\ tasks' = [tasks EXCEPT ![idx] = [done |-> TRUE, outcome |-> o]]
         /\ IF o.raised
            THEN /\ gpc' = "except"
                 /\ UNCHANGED <<results_list, idx>>
            ELSE /\ results_list' = Append(results_list, o)
                 /\ idx' = idx + 1
                 /\ UNCHANGED gpc
    /\ completion_order' = Append(completion_order, idx)
    /\ UNCHANGED <<has_callback, started, results, callbacks>>
    /\ UNCHANGED <<fetchVars, uiVars, exportVars, collectVars>>

\* src/scrapper.py:724: every source was fetched; self.results = {}
RssClear ==
    /\ gpc = "rss_loop"
    /\ idx > Cardinality(Tasks)
    /\ results' = <<>>
    /\ idx' = 1
    /\ gpc' = "loop"
    /\ UNCHANGED <<has_callback, started, tasks, completion_order, results_list, callbacks>>
    /\ UNCHANGED <<fetchVars, uiVars, exportVars, collectVars>>

\* src/scrapper.py:725-728 (LoopStep, each result stored and shown) and 730
NextRss ==
    \/ RssDispatch
    \/ RssCompletes
    \/ RssClear
    \/ LoopStep
    \/ ReturnResults

SpecRss == InitRss /\ [][NextRss]_vars

\* ------------------------------------------------- export (SpecWindow)
\* src/scrapper.py:821-822: the format export_results asks for, from the two
\* check boxes
FormatType(csv, json) ==
    IF csv /\ json THEN "both" ELSE IF csv THEN "csv" ELSE "json"

\* src/scrapper.py:265-310: save_results; what it returns, the files it
\* writes and what it logs
save_results(res, format_type) ==
    LET articles == Flatten(res)
        csv == format_type \in {"csv", "both"}
        json == format_type \in {"json", "both"}
    IN IF articles = <<>>
       THEN [csv_file |-> None, json_file |-> None, files |-> {},
             log |-> "No articles to save"]
       ELSE [csv_file |-> IF csv THEN Some("csv") ELSE None,
             json_file |-> IF json THEN Some("json") ELSE None,
             files |-> (IF csv THEN {[kind |-> "csv", rows |-> articles]} ELSE {})
                       \cup (IF json
                             THEN {[kind |-> "json", total_articles |-> Len(articles),
                                    articles |-> articles]}
                             ELSE {}),
             log |-> "Saved"]

\* src/scrapper.py:724-728: the result map holds the results of only the
\* first sources of a run that is still storing the others
PartialMap ==
    \E r \in Runs :
        /\ runs[r].pc = "store"
        /\ runs[r].si > 1
        /\ self_results = BuildResults(runs[r].batch, runs[r].si - 1)

\* One export_results call, as noted in exports: what the user was told, the
\* files written, the result map and the articles at the time of the call,
\* and whether that map was a partial one.
ExportRecord(report, files) ==
    [report |-> report, files |-> files, results |-> self_results,
     articles |-> all_articles, partial |-> PartialMap]

\* src/scrapper.py:811-837: the export button is pressed
ExportResults ==
    /\ export_btn = "normal"
    /\ Len(exports) < MaxExports
    /\ IF all_articles = <<>>
       THEN exports' = Append(exports, ExportRecord("no_articles", {}))
       ELSE \E folder \in BOOLEAN, csv \in BOOLEAN, json \in BOOLEAN, io_raises \in BOOLEAN :
              IF ~folder
              THEN exports' = Append(exports, ExportRecord("cancelled", {}))
              ELSE LET out == save_results(self_results, FormatType(csv, json)) IN
                   IF io_raises /\ Flatten(self_results) # <<>>
                   THEN exports' = Append(exports, ExportRecord("export_error", {}))
                   ELSE exports' = Append(exports, ExportRecord("exported", out.files))
    /\ UNCHANGED <<uiVars, fetchVars, gatherVars, collectVars>>

NextWindow ==
    \/ NextUI
    \/ ExportResults

SpecWindow == InitUI /\ [][NextWindow]_vars

\* --------------------------------------------------- properties, the window
\* The result map of run r's own fetches
OwnResults(r) == BuildResults(runs[r].batch, Len(runs[r].batch))

C11_RunOwnsItsResults ==
    \A r \in Runs :
        (runs[r].pc = "finish" /\ ~runs[r].failed) =>
            /\ self_results = OwnResults(r)
            /\ all_articles = Flatten(OwnResults(r))

\* ------------------------------------- the collect loops (SpecCollect)
\* The sources of the maps the loops are given.
CollectSources == {"dark_reading", "krebs_security", "gb_hackers"}

\* What a fetch operation can have stored for source k: an error result, or a
\* success result with zero to MaxEntries articles.
SourceResults(k) ==
    { ScrapingResult(k, <<>>, "error", Some("Failed to fetch")) } \cup
    { ScrapingResult(k, [j \in 1..n |-> [title |-> <<"title", j>>, url |-> <<"link", j>>,
                                         source |-> TitleCase(k)]], "success", None) :
        n \in 0..MaxEntries }

\* Result maps of up to MaxSources sources, in every insertion order.
MapEntries ==
    UNION { { [key |-> k, value |-> v] : v \in SourceResults(k) } : k \in CollectSources }

ResultMaps ==
    { m \in UNION { [1..n -> MapEntries] : n \in 0..MaxSources } :
        \A a, b \in 1..Len(m) : m[a].key = m[b].key => a = b }

\* src/scrapper.py:694, 732-733 and 266-269: a loop is about to collect the
\* articles of a result map into an empty list
InitCollect ==
    /\ c_op \in {"run_scraping", "save_results"}
    /\ c_results \in ResultMaps
    /\ c_i = 1
    /\ c_all = <<>>
    /\ c_total = 0
    /\ c_pc = "loop"
    /\ FetchIdle /\ GatherIdle /\ UIIdle /\ ExportIdle

\* src/scrapper.py:734-737, a variant that puts a result's articles in front
CollectStepPrepends ==
    /\ c_pc = "loop"
    /\ c_i <= Len(c_results)
    /\ LET result == c_results[c_i].value IN
       IF result.status = "success"
       THEN /\ c_all' = result.articles \o c_all
            /\ c_total' = IF c_op = "run_scraping"
                           THEN c_total + Len(result.articles) ELSE c_total
       ELSE UNCHANGED <<c_all, c_total>>
    /\ c_i' = c_i + 1
    /\ UNCHANGED <<c_op, c_results, c_pc>>
    /\ UNCHANGED <<fetchVars, gatherVars, uiVars, exportVars>>

\* src/scrapper.py:734-737 and 270-272: one iteration over results.values()
CollectStep ==
    /\ c_pc = "loop"
    /\ c_i <= Len(c_results)
    /\ LET result == c_results[c_i].value IN
       IF result.status = "success"
       THEN /\ c_all' = c_all \o result.articles
            /\ c_total' = IF c_op = "run_scraping"
                           THEN c_total + Len(result.articles) ELSE c_total
       ELSE UNCHANGED <<c_all, c_total>>
    /\ c_i' = c_i + 1
    /\ UNCHANGED <<c_op, c_results, c_pc>>
    /\ UNCHANGED <<fetchVars, gatherVars, uiVars, exportVars>>

\* src/scrapper.py:739 and 293, 302: the loop is over; run_scraping reports
\* total_count, save_results reports len(all_articles)
CollectDone ==
    /\ c_pc = "loop"
    /\ c_i > Len(c_results)
    /\ c_total' = IF c_op = "save_results" THEN Len(c_all) ELSE c_total
    /\ c_pc' = "done"
    /\ UNCHANGED <<c_op, c_results, c_i, c_all>>
    /\ UNCHANGED <<fetchVars, gatherVars, uiVars, exportVars>>

NextCollect ==
    \/ CollectStep
    \/ CollectDone

SpecCollect == InitCollect /\ [][NextCollect]_vars

\* The number of articles the success results before position j hold.
RECURSIVE Offset(_, _)
Offset(m, j) ==
    IF j <= 1 THEN 0
    ELSE Offset(m, j - 1)
         + (IF m[j - 1].value.status = "success" THEN Len(m[j - 1].value.articles) ELSE 0)

C12_NoPartialMapRead ==
    \A k \in 1..Len(exports) :
        exports[k].report \in {"exported", "export_error"} => ~exports[k].partial

\* C14: when every result of the map is an error (or a success without
\* articles), export is declined: an export_results call that is not
\* cancelled writes no file and tells the user there is nothing to export.
C14_EmptyExportDeclined ==
    \A k \in 1..Len(exports) :
        (/\ exports[k].results # <<>>
         /\ ~exports[k].partial
         /\ Flatten(exports[k].results) = <<>>
         /\ exports[k].report # "cancelled") =>
            /\ exports[k].files = {}
            /\ exports[k].report = "no_articles"

\* The positions, among the first n elements of doc, of the elements with a
\* title element and a link with a non-empty href whose handling does not raise.
Linked(doc, n) ==
    { i \in 1..Min(n, Len(doc)) :
        ~doc[i].broken /\ doc[i].title # "none" /\ doc[i].link = "href" }

\* The articles are exactly the elements at positions ps, in document order.
ArticlesAre(articles, doc, ps) ==
    /\ Len(articles) = Cardinality(ps)
    /\ \A k \in 1..Len(articles) :
          /\ articles[k].url[1] = "href"
          /\ articles[k].url[2] \in ps
          /\ articles[k].title = <<doc[articles[k].url[2]].title, articles[k].url[2]>>
    /\ \A k, l \in 1..Len(articles) : k < l => articles[k].url[2] < articles[l].url[2]

ScrapeSucceeded ==
    Krebs /\ pc = "done" /\ ~outcome.raised /\ outcome.value.status = "success"

\* C15 as stated: the returned articles are exactly the elements of the
\* document for which a title and a link were extracted, in document order.
C15_AllLinkedEntriesKept ==
    ScrapeSucceeded =>
        ArticlesAre(outcome.value.articles, html.doc, Linked(html.doc, Len(html.doc)))

\* C15: the returned articles are exactly those of the first `limit` elements
\* of the document for which a title and a link were extracted, in document
\* order; an element without title, without link, with an empty link or whose
\* handling raises is skipped, and nothing else is.
C15_LinkedEntriesWithinLimitKept ==
    ScrapeSucceeded =>
        ArticlesAre(outcome.value.articles, html.doc, Linked(html.doc, limit))

C15_Witness ==
    /\ ScrapeSucceeded /\ limit = 2 /\ Len(html.doc) = 2
    /\ html.doc[1].broken
    /\ html.doc[2] = [title |-> "heading", link |-> "href", broken |-> FALSE]
    /\ Len(outcome.value.articles) = 1
    /\ outcome.value.articles[1].url = <<"href", 2>>

\* The fetches dispatched and not yet ended.
InFlightTasks == { i \in started : ~tasks[i].done }

\* C16: in both modes the fetchers of a run form one batch: whenever a fetch
\* is being waited for, every fetcher of the run has been started.
C16_AllStartedBeforeAnyAwaited ==
    InFlightTasks # {} => started = Tasks

\* C17: at most one background run is in flight at any time, and the start
\* button is never enabled while a run dispatched earlier has not finished.
C17_AtMostOneRunInFlight ==
    /\ Cardinality({ r \in Runs : InFlight(r) }) <= 1
    /\ start_btn = "normal" => \A r \in Runs : ~InFlight(r)

\* C18: the session opened by scrape_krebs_security is closed before the
\* operation returns, on every path.
C18_SessionClosedOnReturn ==
    (Krebs /\ Finished /\ session # "none") => session = "closed"

\* C19: the retry loop stops at the first accepted attempt: from then on the
\* body is the one returned and there is no further request and no further
\* sleep; a sleep happens only right before an attempt with index >= 1, after
\* the preceding attempt failed.
C19_StopsAtFirstSuccess ==
    /\ [](accepted_at # -1 =>
            /\ html.present
            /\ requests_made = accepted_at + 1
            /\ Len(slept) = accepted_at
            /\ Accepted(last_response))
    /\ [][/\ (accepted_at # -1 => UNCHANGED <<html, requests_made, slept, accepted_at>>)
          /\ (slept' # slept =>
                 /\ attempt >= 1
                 /\ Len(slept') = Len(slept) + 1
                 /\ requests_made = attempt
                 /\ ~Accepted(last_response)
                 /\ pc' = "request")
          /\ (requests_made' # requests_made =>
                 /\ requests_made' = requests_made + 1
                 /\ Len(slept) = attempt
                 /\ accepted_at = -1)]_vars

C19_Witness ==
    /\ Krebs /\ pc = "done" /\ accepted_at = 1 /\ requests_made = 2
    /\ retry_config = DefaultRetryConfig /\ slept = <<2>>
    /\ outcome.value.status = "success"

====
